---- MODULE Spec2Model ----
(***************************************************************************)
(* The page-tree repair of integreat_cms and the cache mutex that guards   *)
(* it: integreat_cms/cms/utils/tree_mutex.py and                           *)
(* integreat_cms/cms/utils/repair_tree.py.                                 *)
(*                                                                         *)
(* Every process makes one call of a tree_mutex-guarded function.  The     *)
(* guarded function is tree_mutex's parameter func: either repair_tree,    *)
(* the one function the repository decorates, or a function that returns   *)
(* normally ("func").  Time is counted in ticks of INTERVAL (half a        *)
(* second); a process may be delayed for any time between two steps.       *)
(***************************************************************************)
EXTENDS Integers, Sequences, FiniteSets, TLC

\* ------------------------------------------------------------------ bounds

\* The clock stops at MaxTime ticks.
MaxTime == 22

\* Calls start while the clock is at most MaxCallTime.
MaxCallTime == 1

\* The processes that share the cache and the database.
Procs == {"p1", "p2"}

\* ------------------------------------------------------- program constants

\* tree_mutex.py:12, in seconds.
LOCK_SECONDS == 10

\* tree_mutex.py:13: INTERVAL = .5 seconds is one tick of the clock.
INTERVAL == 1

\* Seconds as ticks of INTERVAL.
Ticks(seconds) == seconds + seconds

\* ---------------------------------------------------------------- storage

\* A row of the page table: the tree fields of treebeard's nested-set node and
\* the parent reference (0 is NULL).
Row(parent, tree_id, lft, rgt, depth) ==
    [parent |-> parent, tree_id |-> tree_id, lft |-> lft, rgt |-> rgt, depth |-> depth]

\* The stored forests the runs start from: a function from page id to row.
ForestChain ==
    (1 :> Row(0, 1, 1, 6, 1)) @@ (2 :> Row(1, 1, 2, 5, 2)) @@ (3 :> Row(2, 1, 3, 4, 3))

\* A root with one child whose stored lft and rgt are corrupt.
ForestCorruptChild ==
    (1 :> Row(0, 1, 1, 2, 1)) @@ (2 :> Row(1, 1, 5, 6, 2))

\* Page 3 claims tree 1, but its parent is the root of tree 2.
ForestOrphan ==
    (1 :> Row(0, 1, 1, 4, 1)) @@ (2 :> Row(1, 1, 2, 3, 2))
        @@ (3 :> Row(4, 1, 2, 3, 2)) @@ (4 :> Row(0, 2, 1, 4, 1))

\* Two children of the root; the stored lft of the grandchild 3 is larger than
\* that of its parent's right sibling 4, so (tree_id, lft) is no pre-order.
ForestNoPreorder ==
    (1 :> Row(0, 1, 1, 8, 1)) @@ (2 :> Row(1, 1, 2, 5, 2))
        @@ (3 :> Row(2, 1, 7, 8, 3)) @@ (4 :> Row(1, 1, 6, 7, 2))

\* A root whose stored lft is not 1, with a child whose stored lft is 1 and
\* whose stored tree_id is not the root's.
ForestRootNotFirst ==
    (1 :> Row(0, 1, 3, 4, 1)) @@ (2 :> Row(1, 2, 1, 2, 2))

Forests ==
    {ForestChain, ForestCorruptChild, ForestOrphan, ForestNoPreorder,
     ForestRootNotFirst}

\* The largest left and right argument of a direct call of check_tree_fields.
MaxCoordinate == 4

\* The largest tree_id argument of a direct call of check_for_orphans.
MaxTreeId == 2

\* A page id that no forest stores.
NoSuchPage == 9

\* The page_id arguments: 0 (the whole forest), a stored page, a missing page.
PageIds == {0, 2, NoSuchPage}

\* The guarded functions: tree_mutex's parameter func.
Funcs == {"repair_tree", "func"}

\* The cache holds no lock key.
NoKey == "none"

\* No exception has been raised.
NoError == "none"

\* ------------------------------------------------- repair_tree.py: the fixer

\* The smallest page of ids in the order (tree_id, lft); equal keys are taken in
\* the order of their ids.
FirstOf(db, ids) ==
    CHOOSE i \in ids : \A j \in ids :
        \/ db[i].tree_id < db[j].tree_id
        \/ db[i].tree_id = db[j].tree_id /\ db[i].lft < db[j].lft
        \/ db[i].tree_id = db[j].tree_id /\ db[i].lft = db[j].lft /\ i <= j

RECURSIVE OrderBy(_, _)
\* Page.objects.all().order_by('tree_id', 'lft') as the sequence of page ids.
OrderBy(db, ids) ==
    IF ids = {} THEN << >>
    ELSE LET i == FirstOf(db, ids) IN << i >> \o OrderBy(db, ids \ {i})

\* get_root_nodes: its first statement evaluates the name tree_node_counter,
\* which nothing binds, so the call raises NameError before its loop.
get_root_nodes(self) == [self EXCEPT !.error = "NameError"]

\* get_all_nodes: for the first node of broken_nodes, fixed_nodes is looked up
\* with node.parent (a Page object or None), while its keys are primary keys.
get_all_nodes(self) ==
    IF self.broken_nodes = << >> THEN self ELSE [self EXCEPT !.error = "KeyError"]

\* MPTTFixer.__init__: reads every page, then builds the fixed tree.
\* fixed_nodes is the dictionary of fixed rows (none yet), db the rows as the
\* open transaction sees them.
MPTTFixer(db) ==
    LET self == [broken_nodes |-> OrderBy(db, DOMAIN db),
                 fixed_nodes |-> << >>,
                 error |-> NoError,
                 db |-> db]
        roots == get_root_nodes(self)
    IN  IF roots.error # NoError THEN roots ELSE get_all_nodes(roots)

\* A check_for_orphans without its exclude(id__in=pages_seen).
check_for_orphans_unseen(db, tree_id, pages_seen) ==
    {i \in DOMAIN db : db[i].tree_id = tree_id}

\* check_for_orphans: the pages with this tree_id that are not in pages_seen.
check_for_orphans(db, tree_id, pages_seen) ==
    {i \in DOMAIN db : db[i].tree_id = tree_id /\ i \notin pages_seen}

\* The printer has printed nothing: no "tree with id" line (roots), no "Page"
\* line of check_tree_fields (checked), no printer.error line (mismatches, as
\* pairs of a page and a field).
NothingPrinted == [roots |-> {}, checked |-> {}, mismatches |-> {}]

\* The guarded function raised before it printed: nothing is reported, the rows
\* are as they were.
Raise(error, db) ==
    [raised |-> TRUE, error |-> error, value |-> "exception", db |-> db, orphans |-> {},
     printed |-> NothingPrinted]

\* The guarded function returned value, with db the rows it leaves.
Return(value, db, orphans) ==
    [raised |-> FALSE, error |-> NoError, value |-> value, db |-> db, orphans |-> orphans,
     printed |-> NothingPrinted]

\* A repair_tree that stores the reset of the root rows (lft 1, rgt 2, depth 1)
\* whatever commit is, and returns.
repair_tree_saving(db, page_id, commit) ==
    Return("None",
           [i \in DOMAIN db |->
               IF db[i].parent = 0
               THEN [db[i] EXCEPT !.lft = 1, !.rgt = 2, !.depth = 1]
               ELSE db[i]],
           {})

\* A repair_tree that, with commit, attaches every page whose tree_id is not its
\* parent's to the root that has this tree_id, and returns.
repair_tree_adopting(db, page_id, commit) ==
    LET roots(i) == {r \in DOMAIN db : db[r].parent = 0 /\ db[r].tree_id = db[i].tree_id}
        stray(i) == /\ commit
                    /\ db[i].parent \in DOMAIN db
                    /\ db[db[i].parent].tree_id # db[i].tree_id
                    /\ roots(i) # {}
    IN  Return("None",
               [i \in DOMAIN db |->
                   IF stray(i)
                   THEN [db[i] EXCEPT !.parent = CHOOSE r \in roots(i) : TRUE]
                   ELSE db[i]],
               {})

\* A repair_tree that, with commit, moves every page whose parent has a parent
\* under that grandparent, and returns.
repair_tree_reparenting(db, page_id, commit) ==
    LET deep(i) == /\ commit
                   /\ db[i].parent \in DOMAIN db
                   /\ db[db[i].parent].parent \in DOMAIN db
    IN  Return("None",
               [i \in DOMAIN db |->
                   IF deep(i)
                   THEN [db[i] EXCEPT !.parent = db[db[i].parent].parent]
                   ELSE db[i]],
               {})

\* repair_tree(page_id, commit): the body that tree_mutex guards.
repair_tree(db, page_id, commit) ==
    LET pages_seen == {}
        mptt_fixer == MPTTFixer(db)
    IN  IF mptt_fixer.error # NoError THEN Raise(mptt_fixer.error, db)
        ELSE IF page_id # 0
        THEN IF page_id \notin DOMAIN db THEN Raise("ValueError", db)
             \* get_fixed_tree_of_page: fixed_nodes[node_id], then .tree_id of
             \* the (key, value) tuples that items() yields
             ELSE IF page_id \notin DOMAIN mptt_fixer.fixed_nodes
                  THEN Raise("KeyError", db)
                  ELSE Raise("AttributeError", db)
        ELSE LET roots == {i \in DOMAIN db : db[i].lft = 1}
                 orphans == UNION {check_for_orphans(db, db[r].tree_id, pages_seen) :
                                      r \in roots}
                 lines == [NothingPrinted EXCEPT !.roots = roots]
             IN  \* line 103 reads tree_node, which this branch never binds; the
                 \* lines of the loop over the roots are printed by then
                 IF commit /\ DOMAIN mptt_fixer.fixed_nodes # {}
                 THEN [Raise("UnboundLocalError", db) EXCEPT
                          !.orphans = orphans, !.printed = lines]
                 ELSE [Return("None", mptt_fixer.db, orphans) EXCEPT !.printed = lines]

\* func(*args, **kwargs) at line 43 of tree_mutex.py.
RunFunc(f, db, page_id, commit) ==
    IF f = "repair_tree" THEN repair_tree(db, page_id, commit)
    ELSE Return("value", db, {})

\* ---------------------------------------------------- repair_tree.py: Printer

\* Python's None: a field that is not set.
None == "None"

\* The callables a channel can be set to.
Sinks == {"stdout", "logfile"}

\* Printer.__init__(print_func, error, success): _print, _error and _success
\* from the arguments, _write and _bold None.
Printer(print_func, error, success) ==
    [print |-> print_func, error |-> error, success |-> success,
     write |-> None, bold |-> None]

\* The property print: logger.debug if _print is not set.
Printer_print(self) ==
    IF self.print = None THEN "logger.debug" ELSE self.print

\* A property error that goes to logger.debug itself if _error is not set.
Printer_error_direct(self) ==
    IF self.error = None THEN "logger.debug" ELSE self.error

\* The property error: self.print if _error is not set.
Printer_error(self) ==
    IF self.error = None THEN Printer_print(self) ELSE self.error

\* The property success: self.print if _success is not set.
Printer_success(self) ==
    IF self.success = None THEN Printer_print(self) ELSE self.success

\* The property write: self.print if _write is not set.
Printer_write(self) ==
    IF self.write = None THEN Printer_print(self) ELSE self.write

\* ------------------------------------- repair_tree.py: check_tree_fields

\* The positional arguments of a call: a Page, an int, a Printer.
PageArg(i) == [kind |-> "Page", value |-> i]
IntArg(n) == [kind |-> "int", value |-> n]
PrinterArg == [kind |-> "Printer", value |-> 0]

\* tree_node.lft == left and the like: an int equals an int of the same value
\* and no object of another type.
Equals(n, arg) == arg.kind = "int" /\ arg.value = n

\* The body of check_tree_fields with tree_node the page i.
TreeFieldsValid(db, i, left, right) ==
    /\ db[i].parent \notin DOMAIN db \/ db[i].tree_id = db[db[i].parent].tree_id
    /\ IF db[i].parent \in DOMAIN db
       THEN db[i].depth = db[db[i].parent].depth + 1
       ELSE db[i].depth = 1
    /\ Equals(db[i].lft, left)
    /\ Equals(db[i].rgt, right)

\* check_tree_fields(self, tree_node, left, right, printer=Printer()) called
\* with the positional arguments args: the first one is bound to self; a call
\* with fewer than four (or more than five) raises TypeError; tree_node.id of
\* line 116 raises AttributeError unless tree_node is a Page.
check_tree_fields(db, args) ==
    IF Len(args) < 4 \/ Len(args) > 5
    THEN [error |-> "TypeError", valid |-> FALSE]
    ELSE IF args[2].kind # "Page"
    THEN [error |-> "AttributeError", valid |-> FALSE]
    ELSE [error |-> NoError,
          valid |-> TreeFieldsValid(db, args[2].value, args[3], args[4])]

\* No direct call has been made.
NoCall == [func |-> "none"]

\* ------------------------------------------------------------------ state

VARIABLES
    stored,     \* the committed rows of the page table
    before,     \* the rows at the start (never written: what runs are compared with)
    now,        \* time.time(), in ticks
    cache,      \* the cache entry MUTEX_page_TREE: its value and its expiry time
    pc,         \* where each process is in innermost_function
    fn,         \* the guarded function each process calls
    page_id,    \* repair_tree's argument page_id
    commit,     \* repair_tree's argument commit
    timeout,    \* innermost_function's local timeout
    wake,       \* when time.sleep(INTERVAL) ends
    written,    \* the rows the process's open transaction has written
    how,        \* how the call ended: "timeout", "returned" or "raised"
    result,     \* what the caller gets: the returned value or "exception"
    reported,   \* the orphans the run has printed
    second,     \* the call began after a commit run of repair_tree had ended
    acquired,   \* the call has read back its own uuid from the lock key
    deleted,    \* the value the lock key had when the call's cache.delete removed it
    printed,    \* the printer's lines of the run: trees, pages checked, mismatches
    call,       \* the last direct call of a module-level function, with its result
    printer     \* the fields of a Printer object

vars ==
    << stored, before, now, cache, pc, fn, page_id, commit, timeout, wake,
       written, how, result, reported, second, acquired, deleted, printed,
       call, printer >>

\* The variables of the tree and of the calls of tree_mutex.
mainvars ==
    << stored, before, now, cache, pc, fn, page_id, commit, timeout, wake,
       written, how, result, reported, second, acquired, deleted, printed >>

\* uuid4() of the call of process p: unique to the call.
uuid(p) == p

\* The key is in the cache: set and not yet expired.
KeyPresent == cache.value # NoKey /\ now < cache.expires

\* A get_or_set whose key lives twice the seconds it is given.
get_or_set_long(value, seconds) ==
    IF KeyPresent THEN cache
    ELSE [value |-> value, expires |-> now + Ticks(seconds) + Ticks(seconds)]

\* cache.get_or_set(lock_name, uuid, LOCK_SECONDS): the value of the key after
\* it has been set to the caller's uuid if it was absent or expired.
get_or_set(value, seconds) ==
    IF KeyPresent THEN cache
    ELSE [value |-> value, expires |-> now + Ticks(seconds)]

\* cache.delete(lock_name)
delete == [value |-> NoKey, expires |-> 0]

\* The rows of db that differ from those of old.
Changed(old, db) ==
    [i \in {j \in DOMAIN db : db[j] # old[j]} |-> db[i]]

\* The committed rows once a transaction that wrote rows commits.
Committed(db, rows) ==
    [i \in DOMAIN db |-> IF i \in DOMAIN rows THEN rows[i] ELSE db[i]]

Init ==
    /\ stored \in Forests
    /\ before = stored
    /\ now = 0
    /\ cache = delete
    /\ pc = [p \in Procs |-> "idle"]
    /\ fn = [p \in Procs |-> "func"]
    /\ page_id = [p \in Procs |-> 0]
    /\ commit = [p \in Procs |-> FALSE]
    /\ timeout = [p \in Procs |-> 0]
    /\ wake = [p \in Procs |-> 0]
    /\ written = [p \in Procs |-> << >>]
    /\ how = [p \in Procs |-> "pending"]
    /\ result = [p \in Procs |-> "pending"]
    /\ reported = [p \in Procs |-> {}]
    /\ second = [p \in Procs |-> FALSE]
    /\ acquired = [p \in Procs |-> FALSE]
    /\ deleted = [p \in Procs |-> "pending"]
    /\ printed = [p \in Procs |-> NothingPrinted]
    /\ call = NoCall
    /\ printer = Printer(None, None, None)

\* A commit run of repair_tree that took the lock has ended.
CommitRunEnded(q) ==
    /\ pc[q] = "done"
    /\ fn[q] = "repair_tree"
    /\ commit[q]
    /\ how[q] \in {"returned", "raised"}

\* Lines 28-30: the call starts; uuid = uuid4(), timeout = time.time() + LOCK_SECONDS.
\* innermost_function does not look at func or at *args and **kwargs before
\* line 43: fn, page_id and commit get their values where they are first read.
Call(p) ==
    /\ pc[p] = "idle"
    /\ now <= MaxCallTime
    /\ pc' = [pc EXCEPT ![p] = "loop"]
    /\ timeout' = [timeout EXCEPT ![p] = now + Ticks(LOCK_SECONDS)]
    /\ second' = [second EXCEPT ![p] = \E q \in Procs : CommitRunEnded(q)]
    /\ UNCHANGED << stored, before, now, cache, fn, page_id, commit, wake,
                    written, how, result, reported, acquired, deleted, printed,
                    call, printer >>

\* Line 31: while time.time() < timeout, true.
LoopEnter(p) ==
    /\ pc[p] = "loop"
    /\ now < timeout[p]
    /\ pc' = [pc EXCEPT ![p] = "try"]
    /\ UNCHANGED << stored, before, now, cache, fn, page_id, commit, timeout, wake,
                    written, how, result, reported, second, acquired,
                    deleted, printed,
                    call, printer >>

\* A loop that, once its time is up, goes on to line 43 and runs func without
\* having the lock.
LoopExit_unguarded(p) ==
    /\ pc[p] = "loop"
    /\ now >= timeout[p]
    /\ pc' = [pc EXCEPT ![p] = "critical"]
    /\ timeout' = [timeout EXCEPT ![p] = 0]
    /\ UNCHANGED << stored, before, now, cache, fn, page_id, commit, wake,
                    written, how, result, reported, second, acquired,
                    deleted, printed,
                    call, printer >>

\* Line 31 false: the loop ends and innermost_function returns None (its
\* locals are gone).
LoopExit(p) ==
    /\ pc[p] = "loop"
    /\ now >= timeout[p]
    /\ pc' = [pc EXCEPT ![p] = "done"]
    /\ how' = [how EXCEPT ![p] = "timeout"]
    /\ result' = [result EXCEPT ![p] = "None"]
    /\ timeout' = [timeout EXCEPT ![p] = 0]
    /\ UNCHANGED << stored, before, now, cache, fn, page_id, commit, wake,
                    written, reported, second, acquired,
                    deleted, printed,
                    call, printer >>

\* Lines 33-36: get_or_set returned our uuid; the guarded section starts (the
\* loop's timeout is not read again).
Acquire(p, f, id, c) ==
    /\ pc[p] = "try"
    /\ get_or_set(uuid(p), LOCK_SECONDS).value = uuid(p)
    /\ cache' = get_or_set(uuid(p), LOCK_SECONDS)
    /\ pc' = [pc EXCEPT ![p] = "critical"]
    /\ fn' = [fn EXCEPT ![p] = f]
    /\ page_id' = [page_id EXCEPT ![p] = id]
    /\ commit' = [commit EXCEPT ![p] = c]
    /\ timeout' = [timeout EXCEPT ![p] = 0]
    /\ acquired' = [acquired EXCEPT ![p] = TRUE]
    /\ UNCHANGED << stored, before, now, wake, written, how, result, reported, second,
                    deleted, printed,
                    call, printer >>

\* Lines 33, 51-53: another uuid is present; time.sleep(INTERVAL).
AcquireFail(p) ==
    /\ pc[p] = "try"
    /\ get_or_set(uuid(p), LOCK_SECONDS).value # uuid(p)
    /\ cache' = get_or_set(uuid(p), LOCK_SECONDS)
    /\ wake' = [wake EXCEPT ![p] = now + INTERVAL]
    /\ pc' = [pc EXCEPT ![p] = "sleep"]
    /\ UNCHANGED << stored, before, now, fn, page_id, commit, timeout,
                    written, how, result, reported, second, acquired,
                    deleted, printed,
                    call, printer >>

\* Line 53: the sleep is over (wake is not read again).
Wake(p) ==
    /\ pc[p] = "sleep"
    /\ now >= wake[p]
    /\ pc' = [pc EXCEPT ![p] = "loop"]
    /\ wake' = [wake EXCEPT ![p] = 0]
    /\ UNCHANGED << stored, before, now, cache, fn, page_id, commit, timeout,
                    written, how, result, reported, second, acquired,
                    deleted, printed,
                    call, printer >>

\* A release that deletes the key only if it still holds the call's own uuid.
FuncReturns_own(p) ==
    LET r == RunFunc(fn[p], stored, page_id[p], commit[p]) IN
    /\ pc[p] = "critical"
    /\ ~r.raised
    /\ written' = [written EXCEPT ![p] = Changed(stored, r.db)]
    /\ reported' = [reported EXCEPT ![p] = r.orphans]
    /\ result' = [result EXCEPT ![p] = r.value]
    /\ printed' = [printed EXCEPT ![p] = r.printed]
    /\ deleted' = [deleted EXCEPT ![p] = IF cache.value = uuid(p) THEN uuid(p) ELSE NoKey]
    /\ cache' = IF cache.value = uuid(p) THEN delete ELSE cache
    /\ pc' = [pc EXCEPT ![p] = "released"]
    /\ UNCHANGED << stored, before, now, fn, page_id, commit, timeout, wake,
                    how, second, acquired,
                    call, printer >>

\* A return of func that leaves the key in the cache while the transaction is
\* open.
FuncReturns_holding(p) ==
    LET r == RunFunc(fn[p], stored, page_id[p], commit[p]) IN
    /\ pc[p] = "critical"
    /\ ~r.raised
    /\ written' = [written EXCEPT ![p] = Changed(stored, r.db)]
    /\ reported' = [reported EXCEPT ![p] = r.orphans]
    /\ result' = [result EXCEPT ![p] = r.value]
    /\ printed' = [printed EXCEPT ![p] = r.printed]
    /\ pc' = [pc EXCEPT ![p] = "released"]
    /\ UNCHANGED << stored, before, now, cache, fn, page_id, commit, timeout, wake,
                    how, second, acquired, deleted, call, printer >>

\* Lines 38-49: func returned inside the atomic block; the key is deleted while
\* the transaction is still open.
FuncReturns(p) ==
    LET r == RunFunc(fn[p], stored, page_id[p], commit[p]) IN
    /\ pc[p] = "critical"
    /\ ~r.raised
    /\ written' = [written EXCEPT ![p] = Changed(stored, r.db)]
    /\ reported' = [reported EXCEPT ![p] = r.orphans]
    /\ result' = [result EXCEPT ![p] = r.value]
    /\ printed' = [printed EXCEPT ![p] = r.printed]
    /\ deleted' = [deleted EXCEPT ![p] = cache.value]
    /\ cache' = delete
    /\ pc' = [pc EXCEPT ![p] = "released"]
    /\ UNCHANGED << stored, before, now, fn, page_id, commit, timeout, wake,
                    how, second, acquired,
                    call, printer >>

\* Line 50 and the exit of the atomic blocks (tree_mutex.py:38, repair_tree.py:71):
\* the transaction commits and the call returns.
CommitAndReturn(p) ==
    /\ pc[p] = "released"
    /\ stored' = Committed(stored, written[p])
    /\ written' = [written EXCEPT ![p] = << >>]
    /\ how' = [how EXCEPT ![p] = "returned"]
    /\ pc' = [pc EXCEPT ![p] = "done"]
    /\ UNCHANGED << before, now, cache, fn, page_id, commit, timeout, wake,
                    result, reported, second, acquired,
                    deleted, printed,
                    call, printer >>

\* Lines 38-43: func raised; the exception leaves the atomic blocks, which roll
\* back, and innermost_function; line 49 is not reached.
FuncRaises(p) ==
    LET r == RunFunc(fn[p], stored, page_id[p], commit[p]) IN
    /\ pc[p] = "critical"
    /\ r.raised
    /\ how' = [how EXCEPT ![p] = "raised"]
    /\ result' = [result EXCEPT ![p] = r.value]
    /\ reported' = [reported EXCEPT ![p] = r.orphans]
    /\ printed' = [printed EXCEPT ![p] = r.printed]
    /\ pc' = [pc EXCEPT ![p] = "done"]
    /\ UNCHANGED << stored, before, now, cache, fn, page_id, commit, timeout, wake,
                    written, second, acquired, deleted,
                    call, printer >>

\* Time passes while a call is running or can still start; a key whose time is
\* up is gone from the cache.
Tick ==
    /\ now < MaxTime
    /\ \E p \in Procs : pc[p] \notin {"idle", "done"} \/ (pc[p] = "idle" /\ now < MaxCallTime)
    /\ now' = now + 1
    /\ cache' = IF cache.value # NoKey /\ now + 1 >= cache.expires THEN delete ELSE cache
    /\ UNCHANGED << stored, before, pc, fn, page_id, commit, timeout, wake,
                    written, how, result, reported, second, acquired,
                    deleted, printed,
                    call, printer >>

Next ==
    \/ \E p \in Procs : Call(p)
    \/ \E p \in Procs : LoopEnter(p)
    \/ \E p \in Procs : LoopExit(p)
    \/ \E p \in Procs : \E id \in PageIds : \E c \in BOOLEAN :
            Acquire(p, "repair_tree", id, c)
    \/ \E p \in Procs : Acquire(p, "func", 0, FALSE)
    \/ \E p \in Procs : AcquireFail(p)
    \/ \E p \in Procs : Wake(p)
    \/ \E p \in Procs : FuncReturns(p)
    \/ \E p \in Procs : CommitAndReturn(p)
    \/ \E p \in Procs : FuncRaises(p)
    \/ Tick

Spec == Init /\ [][Next]_vars

\* ------------------------------------ direct calls of the module's functions

\* The ways check_tree_fields is called for page i: as its docstring names the
\* arguments (tree_node, left, right); as line 93 calls it (with the printer);
\* with a further first argument, which self takes.
Forms(i, left, right) ==
    { << PageArg(i), IntArg(left), IntArg(right) >>,
      << PageArg(i), IntArg(left), IntArg(right), PrinterArg >>,
      << PageArg(i), PageArg(i), IntArg(left), IntArg(right) >> }

\* The functions share no state with one another or with a Printer's fields: a
\* behaviour makes one direct call, or constructs one Printer and sets its
\* channels.
Fresh == call = NoCall /\ printer = Printer(None, None, None)

\* check_tree_fields is called; it has no statement that writes a row.
CallCheckTreeFields(args) ==
    /\ Fresh
    /\ call' = [func |-> "check_tree_fields", args |-> args,
                result |-> check_tree_fields(stored, args)]
    /\ UNCHANGED << mainvars, printer >>

\* check_for_orphans(tree_id, pages_seen) is called; it has no statement that
\* writes a row.
CallCheckForOrphans(tree_id, pages_seen) ==
    /\ Fresh
    /\ call' = [func |-> "check_for_orphans", tree_id |-> tree_id,
                pages_seen |-> pages_seen,
                result |-> check_for_orphans(stored, tree_id, pages_seen)]
    /\ UNCHANGED << mainvars, printer >>

\* Printer(print_func, error, success) is constructed.
NewPrinter(print_func, error, success) ==
    /\ call = NoCall
    /\ printer' = Printer(print_func, error, success)
    /\ UNCHANGED << mainvars, call >>

\* A setter of Printer: printer.<channel> = new.
SetChannel(channel, new) ==
    /\ call = NoCall
    /\ printer' = [printer EXCEPT ![channel] = new]
    /\ UNCHANGED << mainvars, call >>

UnitNext ==
    \/ \E i \in DOMAIN stored : \E left, right \in 1..MaxCoordinate :
            \E args \in Forms(i, left, right) : CallCheckTreeFields(args)
    \/ \E tree_id \in 1..MaxTreeId : \E pages_seen \in SUBSET DOMAIN stored :
            CallCheckForOrphans(tree_id, pages_seen)
    \/ \E print_func, error, success \in Sinks \cup {None} :
            NewPrinter(print_func, error, success)
    \/ \E channel \in DOMAIN printer : \E new \in Sinks \cup {None} :
            SetChannel(channel, new)

UnitSpec == Init /\ [][UnitNext]_vars

\* ------------------------------------------- what the specification expects

\* The pages whose parent is page i.
Children(db, i) == {j \in DOMAIN db : db[j].parent = i}

RECURSIVE RootOf(_, _)
\* The root reached from page i by following parent links.
RootOf(db, i) ==
    IF db[i].parent \notin DOMAIN db THEN i ELSE RootOf(db, db[i].parent)

RECURSIVE SizeOf(_, _)
\* The number of pages in the subtrees of the pages of set.
SizeOf(db, set) ==
    IF set = {} THEN 0
    ELSE LET i == CHOOSE j \in set : TRUE
         IN  1 + SizeOf(db, Children(db, i)) + SizeOf(db, set \ {i})

\* Sibling a comes before sibling b: by stored lft, then by id.
ComesBefore(db, a, b) ==
    db[a].lft < db[b].lft \/ (db[a].lft = db[b].lft /\ a < b)

RECURSIVE NewLft(_, _)
\* The left value of the depth-first pre-order numbering by parent links.
NewLft(db, i) ==
    IF db[i].parent \notin DOMAIN db THEN 1
    ELSE LET earlier == {j \in Children(db, db[i].parent) : ComesBefore(db, j, i)}
         IN  NewLft(db, db[i].parent) + 1 + 2 * SizeOf(db, earlier)

RECURSIVE NewDepth(_, _)
\* The depth by parent links: 1 for a root.
NewDepth(db, i) ==
    IF db[i].parent \notin DOMAIN db THEN 1 ELSE NewDepth(db, db[i].parent) + 1

\* The rows a repair is to compute: the tree fields derived from the parent links.
Recomputed(db) ==
    [i \in DOMAIN db |->
        Row(db[i].parent,
            db[RootOf(db, i)].tree_id,
            NewLft(db, i),
            NewLft(db, i) + 2 * SizeOf(db, {i}) - 1,
            NewDepth(db, i))]

\* The pages of the tree that page i belongs to by its parent links.
TreeOf(db, i) == {j \in DOMAIN db : RootOf(db, j) = RootOf(db, i)}

\* The pages a run with this page_id is to repair.
Repaired(db, id) == IF id = 0 THEN DOMAIN db ELSE TreeOf(db, id)

\* The nested-set intervals of db are well formed.
IntervalsOK(db) ==
    /\ \A i \in DOMAIN db : db[i].lft < db[i].rgt
    /\ \A i \in DOMAIN db : db[i].parent \in DOMAIN db =>
          /\ db[db[i].parent].lft < db[i].lft
          /\ db[i].rgt < db[db[i].parent].rgt
    /\ \A i \in DOMAIN db : \A a, b \in Children(db, i) :
          a # b => db[a].rgt < db[b].lft \/ db[b].rgt < db[a].lft
    /\ \A i \in DOMAIN db : \A a \in Children(db, i) :
          \/ db[a].lft = db[i].lft + 1
          \/ \E b \in Children(db, i) : db[b].rgt + 1 = db[a].lft

\* Process p has made a run of repair_tree that took the lock, for the whole
\* forest or for a stored page, and the run has ended.
RepairEnded(p) ==
    /\ pc[p] = "done"
    /\ acquired[p]
    /\ fn[p] = "repair_tree"
    /\ page_id[p] \in {0} \cup DOMAIN before

\* The tree fields of a row.
TreeFields == {"tree_id", "depth", "lft", "rgt"}

\* The mismatches a run with this page_id is to report: the pages it repairs
\* and their fields whose stored value is not the recomputed one.
Mismatches(db, id) ==
    {m \in Repaired(db, id) \X TreeFields : db[m[1]][m[2]] # Recomputed(db)[m[1]][m[2]]}

\* The roots of the forest: the pages without a parent.
Roots(db) == {i \in DOMAIN db : db[i].parent \notin DOMAIN db}

\* The text channels of a Printer.
Channels == {"print", "error", "success", "write"}

\* Where a text sent to a channel of the Printer is delivered.
Deliver(self, channel) ==
    CASE channel = "print" -> Printer_print(self)
      [] channel = "error" -> Printer_error(self)
      [] channel = "success" -> Printer_success(self)
      [] channel = "write" -> Printer_write(self)

\* What check_tree_fields is to return for page i and the given left and right.
ExpectedValid(db, i, left, right) ==
    /\ db[i].parent = 0 \/ db[i].tree_id = db[db[i].parent].tree_id
    /\ db[i].parent # 0 => db[i].depth = db[db[i].parent].depth + 1
    /\ db[i].parent = 0 => db[i].depth = 1
    /\ db[i].lft = left
    /\ db[i].rgt = right

\* The orphans of the forest: the pages whose stored tree_id is not that of
\* the root their parent links lead to.
Orphans(db) == {i \in DOMAIN db : db[i].tree_id # db[RootOf(db, i)].tree_id}

\* The coordinates the fixer of a run holds: MPTTFixer().fixed_nodes on the rows
\* the run has read.
FixedNodes == MPTTFixer(before).fixed_nodes

\* ------------------------------------------------------------------ claims

\* C1: at most one process is in the guarded section (between reading back its
\* own uuid from the key MUTEX_page_TREE and deleting the key), whatever the
\* interleaving and however long a holder stays in the section.
C1_MutualExclusion ==
    Cardinality({p \in Procs : pc[p] = "critical"}) <= 1

\* C2: as long as every call that has taken the lock is a repair_tree run with
\* commit=False, the stored rows are those before the runs and no transaction
\* has written a row.
C2_DryRunPurity ==
    (\A p \in Procs : acquired[p] => fn[p] = "repair_tree" /\ ~commit[p])
        => stored = before /\ \A p \in Procs : written[p] = << >>

\* C2 witness: a dry run for the whole forest and a dry run for one page have
\* ended on a forest that has a corrupt child or an orphan.
C2_Witness ==
    /\ before \in {ForestCorruptChild, ForestOrphan}
    /\ \A p \in Procs : RepairEnded(p) /\ ~commit[p]
    /\ \E p, q \in Procs : page_id[p] = 0 /\ page_id[q] # 0

\* C3: when a repair_tree run with commit=True has ended, every stored page has
\* lft < rgt, lies strictly inside its parent, and the children of one parent
\* are pairwise disjoint and contiguous.
C3_IntervalsAfterCommit ==
    \A p \in Procs : RepairEnded(p) /\ commit[p] => IntervalsOK(stored)

\* C4: when a second repair_tree run with commit=True has ended after a first
\* one, it had no mismatch to report (every stored row of the pages it repairs
\* equals the recomputed one) and the stored rows are unchanged.
C4_SecondRunIdempotent ==
    \A p \in Procs : RepairEnded(p) /\ commit[p] /\ second[p] =>
        /\ \A i \in Repaired(stored, page_id[p]) : stored[i] = Recomputed(stored)[i]
        /\ written[p] = << >>

\* C5: when a repair_tree run with commit=True has ended, for one page_id or for
\* the whole forest, every page it repairs whose row differed from the
\* recomputed one holds the recomputed row.
C5_CommitPersists ==
    \A p \in Procs : RepairEnded(p) /\ commit[p] =>
        \A i \in Repaired(before, page_id[p]) :
            before[i] # Recomputed(before)[i] => stored[i] = Recomputed(before)[i]

\* C6: on the forest whose one orphan is page 3 (it claims tree 1, its parent is
\* the root of tree 2), a run that has ended has reported exactly page 3.
C6_OrphanReport ==
    \A p \in Procs : RepairEnded(p) /\ before = ForestOrphan => reported[p] = {3}

\* C8: a call whose acquisition loop ran out of time ends with an exception,
\* never with a returned value.
C8_TimeoutFailsLoudly ==
    \A p \in Procs : how[p] = "timeout" => result[p] = "exception"

\* C9: a call that has never read back its own uuid from the lock key is not in
\* the guarded section, has not run func and has written no row.
C9_NoUnguardedExecution ==
    \A p \in Procs : ~acquired[p] =>
        /\ pc[p] \notin {"critical", "released"}
        /\ how[p] \in {"pending", "timeout"}
        /\ written[p] = << >>
        /\ reported[p] = {}

\* C9 witness: a call has ended by the time-out of its loop while another call
\* held the lock.
C9_Witness ==
    \E p, q \in Procs :
        /\ pc[p] = "done" /\ how[p] = "timeout" /\ ~acquired[p]
        /\ acquired[q]
        /\ stored = before

\* C10: of two concurrent repair_tree runs, the one that did not get the lock
\* first is never in the guarded section while the first still is.
C10_SecondWaitsForFirst ==
    \A p, q \in Procs :
        p # q /\ fn[p] = "repair_tree" /\ fn[q] = "repair_tree" /\ pc[p] = "critical"
            => pc[q] # "critical"

\* C11: a lock key that is in the cache was set less than LOCK_SECONDS ago,
\* however long its holder stays in the guarded section without deleting it;
\* and an acquisition attempt made while no key is in the cache enters the
\* guarded section with the key set to the attempt's own uuid.
C11_ExpiryRecovery ==
    /\ [](cache.value # NoKey =>
            now < cache.expires /\ cache.expires <= now + Ticks(LOCK_SECONDS))
    /\ [][\A q \in Procs :
            pc[q] = "try" /\ cache.value = NoKey /\ pc'[q] # "try"
                => pc'[q] = "critical" /\ cache'.value = uuid(q)]_vars

\* C11 witness: a holder has stayed in the guarded section for LOCK_SECONDS
\* without deleting the key, and another process has since taken the lock.
C11_Witness ==
    \E p, q \in Procs :
        /\ p # q
        /\ pc[p] = "critical" /\ deleted[p] = "pending"
        /\ acquired[q] /\ cache.value = uuid(q)
        /\ now >= Ticks(LOCK_SECONDS)

\* C13: a call whose guarded function returns deletes the lock key whatever
\* value the key holds: after the step the cache holds no key, and the value
\* removed is the one the key had, the call's own uuid or not.
C13_UnconditionalRelease ==
    [][\A p \in Procs :
        pc[p] = "critical" /\ pc'[p] = "released"
            => cache'.value = NoKey /\ deleted'[p] = cache.value]_vars

\* C13 witness: a call whose key had expired has deleted the key of a second
\* call, which took the lock after the expiry and is still in the guarded
\* section.
C13_Witness ==
    \E p, q \in Procs :
        /\ p # q
        /\ pc[p] \in {"released", "done"} /\ deleted[p] = uuid(q)
        /\ pc[q] = "critical"
        /\ cache.value = NoKey

\* C14: a repair_tree call for a page_id that no stored page has ends without
\* ever having read back its own uuid from the lock key, and leaves no key of
\* its own in the cache.
C14_NotFoundBeforeLock ==
    \A p \in Procs :
        pc[p] = "done" /\ fn[p] = "repair_tree" /\ page_id[p] = NoSuchPage
            => ~acquired[p] /\ cache.value # uuid(p)

\* C15: when a repair_tree run has ended, its fixer holds coordinates for every
\* page it repairs, in which the tree_id is that of the root reached by the
\* parent links and the depth is 1 for a root and the parent's depth + 1
\* otherwise; after a run with commit=True the stored rows hold these values.
C15_DerivedTreeIdAndDepth ==
    \A p \in Procs : RepairEnded(p) =>
        \A i \in Repaired(before, page_id[p]) :
            /\ i \in DOMAIN FixedNodes
            /\ FixedNodes[i].tree_id = before[RootOf(before, i)].tree_id
            /\ FixedNodes[i].depth = NewDepth(before, i)
            /\ commit[p] =>
                  /\ stored[i].tree_id = before[RootOf(before, i)].tree_id
                  /\ stored[i].depth = NewDepth(before, i)

\* C16: when a repair_tree run has ended, its fixer holds for every page it
\* repairs the lft and rgt of the depth-first pre-order numbering by parent
\* links (siblings in the order of their stored lft), and the root of a tree of
\* n pages has rgt = 2n.
C16_PreorderNumbering ==
    \A p \in Procs : RepairEnded(p) =>
        \A i \in Repaired(before, page_id[p]) :
            /\ i \in DOMAIN FixedNodes
            /\ FixedNodes[i].lft = NewLft(before, i)
            /\ FixedNodes[i].rgt = NewLft(before, i) + 2 * SizeOf(before, {i}) - 1
            /\ before[i].parent \notin DOMAIN before =>
                  FixedNodes[i].rgt = 2 * Cardinality(TreeOf(before, i))

\* C17: when a repair_tree run has ended, any two children a and b of one
\* parent among the pages it repairs, with stored lft of a below that of b,
\* have coordinates in its fixer with lft of a below lft of b.
C17_SiblingOrder ==
    \A p \in Procs : RepairEnded(p) =>
        \A a, b \in Repaired(before, page_id[p]) :
            /\ before[a].parent \in DOMAIN before
            /\ before[a].parent = before[b].parent
            /\ before[a].lft < before[b].lft
            => /\ a \in DOMAIN FixedNodes
               /\ b \in DOMAIN FixedNodes
               /\ FixedNodes[a].lft < FixedNodes[b].lft

\* C18: when a repair_tree run has ended, with or without commit, for one page
\* or for the whole forest, it has checked every page of the trees it repairs
\* and has reported exactly the fields of these pages whose stored value is
\* not the recomputed one.
C18_MismatchReporting ==
    \A p \in Procs : RepairEnded(p) =>
        /\ printed[p].checked = Repaired(before, page_id[p])
        /\ printed[p].mismatches = Mismatches(before, page_id[p])

\* C19: when a repair_tree run for a stored page has ended, the node it took as
\* root is the root reached from the page by parent links, and the pages it
\* checked are those of that root's tree, whatever the page's stored tree_id.
C19_TreeByParentLinks ==
    \A p \in Procs : RepairEnded(p) /\ page_id[p] # 0 =>
        /\ printed[p].roots = {RootOf(before, page_id[p])}
        /\ printed[p].checked = TreeOf(before, page_id[p])

\* C20: when a repair_tree run for the whole forest has ended, the nodes it
\* processed as roots are exactly the pages without a parent, whatever their
\* stored lft.
C20_EveryRootCovered ==
    \A p \in Procs : RepairEnded(p) /\ page_id[p] = 0 =>
        printed[p].roots = Roots(before)

\* C21: when a repair_tree run with commit=True has ended, every page that it
\* reported as an orphan, and every orphan of the forest, has the stored row
\* it had before the run: parent, tree_id, depth, lft and rgt.
C21_OrphansReportOnly ==
    \A p \in Procs : RepairEnded(p) /\ commit[p] =>
        \A i \in reported[p] \cup Orphans(before) : stored[i] = before[i]

\* C21 witness: a run with commit=True for the whole forest has ended on the
\* forest whose page 3 is an orphan, and page 3 still has parent 4.
C21_Witness ==
    \E p \in Procs :
        /\ RepairEnded(p) /\ commit[p] /\ page_id[p] = 0
        /\ before = ForestOrphan
        /\ 3 \in Orphans(before)
        /\ stored[3].parent = 4

\* C22: the stored pages are those before the runs, each with the parent it
\* had, and no open transaction has written a row of another page or with
\* another parent.
C22_ParentLinksKept ==
    /\ DOMAIN stored = DOMAIN before
    /\ \A i \in DOMAIN stored : stored[i].parent = before[i].parent
    /\ \A p \in Procs : \A i \in DOMAIN written[p] :
          i \in DOMAIN before /\ written[p][i].parent = before[i].parent

\* C22 witness: on the forest of depth three whose numbering is not a
\* pre-order, a run with commit=True for the whole forest and a run for one
\* page have ended.
C22_Witness ==
    \E p, q \in Procs :
        /\ before = ForestNoPreorder
        /\ RepairEnded(p) /\ page_id[p] = 0 /\ commit[p]
        /\ RepairEnded(q) /\ page_id[q] # 0 /\ ~commit[q]

\* C24: on the tree of a root (lft 1, rgt 2, depth 1) and one child with stored
\* lft 5 and rgt 6, a run that has ended has reported the child's lft and rgt
\* as mismatches, with the corrected values lft 2 and rgt 3, and no orphan;
\* after a run with commit=True the child is stored with lft 2 and rgt 3 and
\* the root with rgt 4.
C24_CorruptChildScenario ==
    \A p \in Procs : RepairEnded(p) /\ before = ForestCorruptChild =>
        /\ << 2, "lft" >> \in printed[p].mismatches
        /\ << 2, "rgt" >> \in printed[p].mismatches
        /\ 2 \in DOMAIN FixedNodes
        /\ FixedNodes[2].lft = 2 /\ FixedNodes[2].rgt = 3
        /\ reported[p] = {}
        /\ commit[p] =>
              stored[2].lft = 2 /\ stored[2].rgt = 3 /\ stored[1].rgt = 4

\* C25 as amended: a channel that is set delivers to what it is set to; print,
\* when not set, delivers to logger.debug; error, success and write, when not
\* set, deliver where print delivers; and setting error, success or write
\* never changes where another channel delivers.
C25_ChannelsFallBackToPrint ==
    /\ \A c \in Channels : printer[c] # None => Deliver(printer, c) = printer[c]
    /\ printer.print = None => Deliver(printer, "print") = "logger.debug"
    /\ \A c \in Channels \ {"print"} :
          printer[c] = None => Deliver(printer, c) = Deliver(printer, "print")
    /\ \A c \in Channels \ {"print"} : \A new \in Sinks \cup {None} :
          \A d \in Channels \ {c} :
              Deliver([printer EXCEPT ![c] = new], d) = Deliver(printer, d)

\* C25 witness: print and write are set, error is not, and a text sent to
\* error is delivered to what print is set to.
C25_Witness ==
    /\ printer.print \in Sinks
    /\ printer.write \in Sinks
    /\ printer.error = None
    /\ Deliver(printer, "error") = printer.print

\* C25: every text channel that is not set delivers to logger.debug, whatever
\* the other channels have been set to (so that setting one channel never
\* changes where another channel that is not set delivers).
C25_ChannelsIndependent ==
    \A c \in Channels : printer[c] = None => Deliver(printer, c) = "logger.debug"

\* C26: a call check_tree_fields(node, left, right), with or without a printer,
\* returns without an exception; what it returns is true exactly when the
\* node's stored tree_id is its parent's (or it has no parent), its stored
\* depth is its parent's + 1 (or 1 without a parent), its stored lft is left
\* and its stored rgt is right; and the stored rows are as before.
C26_CheckTreeFieldsContract ==
    (call.func = "check_tree_fields" /\ call.args[2].kind = "int") =>
        /\ call.result.error = NoError
        /\ call.result.valid =
              ExpectedValid(stored, call.args[1].value,
                            call.args[2].value, call.args[3].value)
        /\ stored = before

\* C27: what a call check_for_orphans(tree_id, pages_seen) returns holds only
\* stored pages that have this tree_id and are not in pages_seen, and holds
\* every such page; and the stored rows are as before.
C27_CheckForOrphansContract ==
    call.func = "check_for_orphans" =>
        /\ \A i \in call.result :
              /\ i \in DOMAIN stored
              /\ stored[i].tree_id = call.tree_id
              /\ i \notin call.pages_seen
        /\ \A i \in DOMAIN stored :
              stored[i].tree_id = call.tree_id /\ i \notin call.pages_seen
                  => i \in call.result
        /\ stored = before

\* C27 witness: a call has returned a page while it left out another page of the
\* same tree_id that is in pages_seen.
C27_Witness ==
    /\ call.func = "check_for_orphans"
    /\ call.result # {}
    /\ \E i \in call.pages_seen : i \in DOMAIN stored /\ stored[i].tree_id = call.tree_id

\* C28: a call whose guarded function raises leaves the lock key as it is;
\* while the key holds the uuid of a call that has raised, the key goes only by
\* reaching its expiry time, and every acquisition attempt of another call
\* fails.
C28_KeyKeptOnFailure ==
    [][\A p \in Procs :
        /\ (pc[p] = "critical" /\ how'[p] = "raised") => cache' = cache
        /\ (how[p] = "raised" /\ cache.value = uuid(p)) =>
              /\ cache' # cache => now' >= cache.expires
              /\ \A q \in Procs :
                    pc[q] = "try" /\ pc'[q] # "try" => pc'[q] = "sleep"]_vars

C30_EveryReachableNodeFixed ==
    (\E p \in Procs : RepairEnded(p)) =>
        \A i \in DOMAIN before :
            RootOf(before, i) \in Roots(before) => i \in DOMAIN FixedNodes

====
